---- MODULE Spec2Model ----
(***************************************************************************)
(* Model of geoip2_tools/database.py: the Geoip2DataBase manager, used by  *)
(* independent processes that share one filesystem.  Every process owns    *)
(* one manager and calls its methods one after the other; the steps of     *)
(* download() of different processes interleave at the system calls.       *)
(*                                                                         *)
(* Specifications:                                                         *)
(*   Spec      the processes, each with a constructed manager for the same *)
(*             target path, running download / exists / updated_at /       *)
(*             reader against the shared filesystem;                       *)
(*   SpecTimed the same with the system clock advancing, for the           *)
(*             properties that read timestamps;                            *)
(*   SpecCtor  the constructor applied to arguments and an environment     *)
(*             drawn from bounded sets.                                    *)
(***************************************************************************)
EXTENDS Integers, Sequences, FiniteSets, TLC

(***************************************************************************)
(* Bounds                                                                  *)
(***************************************************************************)
NumProcs == 2
MaxClock == 1
MaxMembers == 2
MaxOpens == 2

Procs == 1..NumProcs

(***************************************************************************)
(* Python values.  An optional value is a record, so that None, the empty  *)
(* string and 0 stay distinct values that TLC can compare.                 *)
(***************************************************************************)
NoneStr == [some |-> FALSE, v |-> ""]
NoneInt == [some |-> FALSE, v |-> 0]
Some(x) == [some |-> TRUE, v |-> x]

\* Truth value of an optional string: None and "" are falsy.
Truthy(o) == o.some /\ o.v # ""

\* Python's `a or b`.
PyOr(a, b) == IF Truthy(a) THEN a ELSE b

(***************************************************************************)
(* Module constants of database.py                                         *)
(***************************************************************************)
DATABASE_ALIASES ==
  [asn |-> "GeoLite2-ASN", country |-> "GeoLite2-Country", city |-> "GeoLite2-City"]

DEFAULT_GEOIP2_TOOLS_DIRECTORY == "~/.config/geoip2-tools/"

\* The directory environment variable is taken as unset at import time.
GEOIP2_TOOLS_DIRECTORY == DEFAULT_GEOIP2_TOOLS_DIRECTORY

\* dict.get(key, default)
DictGet(d, k, default) == IF k \in DOMAIN d THEN d[k] ELSE default

\* os.path.join(directory, name), kept as the pair of its components; the
\* names of the model contain no separator.
PathJoin(d, name) == <<d, name>>

(***************************************************************************)
(* Inputs of the constructor                                               *)
(***************************************************************************)
EditionArgs ==
  {"asn", "country", "city", "GeoLite2-ASN", "GeoLite2-Country", "GeoLite2-City",
   "GeoIP2-ISP"}
DirectoryArgs == {NoneStr, Some(""), Some("/var/lib/geoip")}
KeyArgs == {NoneStr, Some(""), Some("KEY")}
EnvValues == {NoneStr, Some(""), Some("ENVKEY")}

CtorArgs ==
  [edition_id : EditionArgs, directory : DirectoryArgs, license_key : KeyArgs]

\* A manager that was never constructed (or whose construction raised).
NoManager ==
  [built |-> FALSE, edition_id |-> "", directory |-> "", license_key |-> NoneStr]

(***************************************************************************)
(* Geoip2DataBase.__init__                                                 *)
(***************************************************************************)
\* The assertion of __init__ , line 34.
LicenseAccepted(key) == key.some

CanonicalEditionVerbatim(edition_id) == edition_id

CanonicalEdition(edition_id) == DictGet(DATABASE_ALIASES, edition_id, edition_id)

ResolveLicense(license_key, envKey) == PyOr(license_key, envKey)

ResolveDirectory(directory) == PyOr(directory, Some(GEOIP2_TOOLS_DIRECTORY)).v

\* The object __init__ leaves behind; built = FALSE when the assertion raised.
NewManager(a, envKey) ==
  LET key == ResolveLicense(a.license_key, envKey)
  IN  IF LicenseAccepted(key)
      THEN [built |-> TRUE,
            edition_id |-> CanonicalEdition(a.edition_id),
            directory |-> ResolveDirectory(a.directory),
            license_key |-> key]
      ELSE NoManager

\* Geoip2DataBase.path
path(m) == PathJoin(m.directory, m.edition_id \o ".mmdb")

\* Geoip2DataBase.download_params
download_params(m) ==
  [edition_id |-> m.edition_id, license_key |-> m.license_key.v, suffix |-> "tar.gz"]


(***************************************************************************)
(* The remote archive.  A member name is kept as its base and its suffix,  *)
(* which is all that str.endswith('.mmdb') reads; the data of a member is  *)
(* a sequence of blocks.                                                   *)
(***************************************************************************)
TxtMember == [name |-> [base |-> "LICENSE", suffix |-> ".txt"], data |-> <<7>>]
DbMember == [name |-> [base |-> "GeoLite2-ASN", suffix |-> ".mmdb"], data |-> <<1, 2>>]
OldDbMember == [name |-> [base |-> "GeoLite2-ASN-old", suffix |-> ".mmdb"], data |-> <<3>>]
Members == {TxtMember, DbMember, OldDbMember}

\* The sequences of at most n elements of S, none of them twice: the members
\* of an archive have distinct names.
SeqsUpTo(S, n) ==
  {s \in UNION {[1..k -> S] : k \in 0..n} :
     \A i, j \in DOMAIN s : s[i] = s[j] => i = j}

\* What the HTTP body can be: a gzip-tar archive, or bytes that are no
\* archive at all (an error page of the provider).
Responses ==
  [kind : {"tar"}, members : SeqsUpTo(Members, MaxMembers)]
    \cup {[kind |-> "garbage", members |-> <<>>]}
NoResponse == [kind |-> "none", members |-> <<>>]

\* Contents the external geoip2.database.Reader accepts as a database.
ValidDatabases == {DbMember.data, OldDbMember.data}

\* tar.getnames()
getnames(tar) == [i \in 1..Len(tar.members) |-> tar.members[i].name]

EndsWithAnything(name) == TRUE

\* lambda x: x.endswith('.mmdb')
EndsWithMmdb(name) == name.suffix = ".mmdb"

\* filter(lambda x: x.endswith('.mmdb'), names), as the matching positions
FilterMmdb(names) == {i \in 1..Len(names) : EndsWithMmdb(names[i])}

NextOfLast(matches) == CHOOSE i \in matches : \A j \in matches : i >= j

\* next(iterator) over a non-empty filter result: the first match.
NextOf(matches) == CHOOSE i \in matches : \A j \in matches : i <= j

(***************************************************************************)
(* State                                                                   *)
(***************************************************************************)
VARIABLES
  env,        \* os.environ.get(GEOIP2_MAXMIND_LICENSE_KEY_ENVNAME)
  args,       \* arguments handed to the constructor
  mgr,        \* mgr[p]: the manager object of process p (without _reader)
  _reader,    \* _reader[p]: self._reader, NoReader or the instance number
  fs,         \* fs[f]: the filesystem entry at path f
  dirs,       \* the directories that exist
  flock,      \* flock[f]: the processes holding the exclusive lock on f
  now,        \* the system clock
  pc,         \* pc[p]: where process p is inside download()
  resp,       \* resp[p]: the HTTP body process p received
  pending,    \* pending[p]: blocks of the member still to be written
  ret,        \* what the step just taken returned or raised, and to whom
  startTime,  \* startTime[p]: the clock when p invoked the download() it is in
  nzStart,    \* nzStart[p]: when p invoked that download() the file was non-empty
              \* and no process held its lock
  peerDone,   \* peerDone[p]: another process fetched and installed during it
  partStart,  \* partStart[p]: when p took the lock the file held a part of a
              \* database, left by a download() that failed
  readerOpens \* readerOpens[p]: Reader objects p has constructed so far

vars ==
  <<env, args, mgr, _reader, fs, dirs, flock, now, pc, resp, pending, ret,
    startTime, nzStart, peerDone, partStart, readerOpens>>

NoReader == 0

File == [exists : BOOLEAN, content : Seq(Nat), mtime : Nat]
AbsentFile == [exists |-> FALSE, content |-> <<>>, mtime |-> 0]

\* The paths the managers of the processes name.
PathsOf(managers) == {path(managers[p]) : p \in Procs}

\* io: the call touched the filesystem; http: it issued the HTTP GET.
NoCall ==
  [proc |-> 0, op |-> "", err |-> "", val |-> NoneInt, io |-> FALSE, http |-> FALSE]
Returned(p, op, val, io, http) ==
  [proc |-> p, op |-> op, err |-> "", val |-> val, io |-> io, http |-> http]
Raised(p, op, err, io, http) ==
  [proc |-> p, op |-> op, err |-> err, val |-> NoneInt, io |-> io, http |-> http]

\* The arguments each process of Spec constructs its manager with: the
\* first process names the edition by its alias, the others by its canonical
\* name, so all of them resolve to one target file.
MainArgs(p) ==
  [edition_id |-> IF p = 1 THEN "asn" ELSE "GeoLite2-ASN",
   directory |-> Some("/var/lib/geoip"),
   license_key |-> Some("KEY")]

InitCommon ==
  /\ _reader = [p \in Procs |-> NoReader]
  /\ fs = [f \in PathsOf(mgr) |-> AbsentFile]
  /\ flock = [f \in PathsOf(mgr) |-> {}]
  /\ now = 0
  /\ pc = [p \in Procs |-> "idle"]
  /\ resp = [p \in Procs |-> NoResponse]
  /\ pending = [p \in Procs |-> <<>>]
  /\ ret = NoCall
  /\ startTime = [p \in Procs |-> 0]
  /\ nzStart = [p \in Procs |-> FALSE]
  /\ peerDone = [p \in Procs |-> FALSE]
  /\ partStart = [p \in Procs |-> FALSE]
  /\ readerOpens = [p \in Procs |-> 0]

\* The state after every process has constructed its manager.
Init ==
  /\ env = NoneStr
  /\ args = MainArgs(1)
  /\ mgr = [p \in Procs |-> NewManager(MainArgs(p), env)]
  /\ dirs \in {{}, {MainArgs(1).directory.v}}
  /\ InitCommon


(***************************************************************************)
(* Filesystem and lock primitives                                          *)
(***************************************************************************)
\* open(path, 'ab'): creates the entry when it is missing, keeps the content.
OpenAppend(file, t) ==
  IF file.exists THEN file ELSE [exists |-> TRUE, content |-> <<>>, mtime |-> t]

\* fh.seek(0); fh.truncate(0)
Truncate(file, t) == [file EXCEPT !.content = <<>>, !.mtime = t]

\* fh.write(block) on a handle opened for appending
WriteBlock(file, block, t) == [file EXCEPT !.content = @ \o <<block>>, !.mtime = t]

LockKeepsContent == FALSE

\* portalocker.Lock(path, mode='wb'): a 'w' in the mode is opened as 'a' and
\* the file is truncated once the lock is held.
LockTruncates == TRUE

\* The content is a part of a database: something was written, and it is not
\* a whole database.
PartlyWritten(content) == content # <<>> /\ content \notin ValidDatabases

\* os.path.getsize(path)
getsize(f) == Len(fs[f].content)

existsNonEmpty(p) == fs[path(mgr[p])].exists /\ fs[path(mgr[p])].content # <<>>

\* Geoip2DataBase.exists (os.path.lexists)
exists(p) == fs[path(mgr[p])].exists

updated_at_inverted(p) ==
  IF fs[path(mgr[p])].exists THEN NoneInt ELSE Some(fs[path(mgr[p])].mtime)

\* Geoip2DataBase.updated_at; timestamps are compared as clock values.
updated_at(p) ==
  IF ~exists(p) THEN NoneInt ELSE Some(fs[path(mgr[p])].mtime)

HasReaderNever(r) == FALSE

\* Truth value of self._reader
HasReader(r) == r # NoReader

Ready(p) == pc[p] = "idle" /\ mgr[p].built

Config == <<env, args, mgr>>
History == <<startTime, nzStart, peerDone, partStart>>

LeaveKeepingLock(p, result, installed) ==
  /\ flock' = flock
  /\ pc' = [pc EXCEPT ![p] = "idle"]
  /\ ret' = result
  /\ resp' = [resp EXCEPT ![p] = NoResponse]
  /\ startTime' = [startTime EXCEPT ![p] = 0]
  /\ nzStart' = [nzStart EXCEPT ![p] = FALSE]
  /\ partStart' = [partStart EXCEPT ![p] = FALSE]
  /\ peerDone' = [peerDone EXCEPT ![p] = FALSE]

\* What download() leaves behind when process p returns or raises: the lock
\* is released and the bookkeeping of the invocation ends.  installed tells
\* that this invocation fetched the archive and wrote the member.
Leave(p, result, installed) ==
  LET f == path(mgr[p])
  IN  /\ flock' = [flock EXCEPT ![f] = @ \ {p}]
      /\ pc' = [pc EXCEPT ![p] = "idle"]
      /\ ret' = result
      /\ resp' = [resp EXCEPT ![p] = NoResponse]
      /\ startTime' = [startTime EXCEPT ![p] = 0]
      /\ nzStart' = [nzStart EXCEPT ![p] = FALSE]
      /\ partStart' = [partStart EXCEPT ![p] = FALSE]
      /\ peerDone' = [q \in Procs |->
                        IF q = p THEN FALSE
                        ELSE peerDone[q] \/ (installed /\ pc[q] # "idle" /\ path(mgr[q]) = f)]

(***************************************************************************)
(* Geoip2DataBase.download, one action per step                            *)
(***************************************************************************)
\* download() is invoked; portalocker opens the target file for appending.
download_open(p) ==
  /\ Ready(p)
  /\ LET f == path(mgr[p])
     IN  IF mgr[p].directory \in dirs
         THEN /\ fs' = [fs EXCEPT ![f] = OpenAppend(@, now)]
              /\ pc' = [pc EXCEPT ![p] = "open"]
              /\ startTime' = [startTime EXCEPT ![p] = now]
              /\ nzStart' = [nzStart EXCEPT ![p] =
                                fs[f].exists /\ getsize(f) # 0 /\ flock[f] = {}]
              /\ ret' = NoCall
         ELSE /\ ret' = Raised(p, "download", "FileNotFoundError", TRUE, FALSE)
              /\ UNCHANGED <<fs, pc, startTime, nzStart>>
  /\ UNCHANGED <<Config, peerDone, partStart, _reader, dirs, flock, now, resp, pending,
                 readerOpens>>

download_lock_unguarded(p) ==
  /\ pc[p] = "open"
  /\ flock' = [flock EXCEPT ![path(mgr[p])] = @ \cup {p}]
  /\ partStart' = [partStart EXCEPT ![p] = PartlyWritten(fs[path(mgr[p])].content)]
  /\ pc' = [pc EXCEPT ![p] = "locked"]
  /\ ret' = NoCall
  /\ UNCHANGED <<Config, startTime, nzStart, peerDone, _reader, fs, dirs, now, resp, pending,
                 readerOpens>>

\* The exclusive non-blocking flock succeeds.
download_lock(p) ==
  /\ pc[p] = "open"
  /\ LET f == path(mgr[p])
     IN  /\ flock[f] = {}
         /\ flock' = [flock EXCEPT ![f] = {p}]
         /\ partStart' = [partStart EXCEPT ![p] = PartlyWritten(fs[f].content)]
  /\ pc' = [pc EXCEPT ![p] = "locked"]
  /\ ret' = NoCall
  /\ UNCHANGED <<Config, startTime, nzStart, peerDone, _reader, fs, dirs, now, resp, pending,
                 readerOpens>>

\* The lock stayed held by another process until portalocker's timeout ran
\* out: the handle is closed and the lock error is raised.
download_lock_timeout(p) ==
  /\ pc[p] = "open"
  /\ flock[path(mgr[p])] # {}
  /\ Leave(p, Raised(p, "download", "LockException", TRUE, FALSE), FALSE)
  /\ UNCHANGED <<Config, _reader, fs, dirs, now, pending, readerOpens>>

\* portalocker prepares the handle it locked.
download_truncate(p) ==
  /\ pc[p] = "locked"
  /\ LET f == path(mgr[p])
     IN  fs' = [fs EXCEPT ![f] = IF LockTruncates THEN Truncate(@, now) ELSE @]
  /\ pc' = [pc EXCEPT ![p] = "check"]
  /\ ret' = NoCall
  /\ UNCHANGED <<Config, History, _reader, dirs, flock, now, resp, pending, readerOpens>>

\* if os.path.getsize(self.path) != 0: return
download_check(p) ==
  /\ pc[p] = "check"
  /\ IF getsize(path(mgr[p])) # 0
     THEN Leave(p, Returned(p, "download", NoneInt, TRUE, FALSE), FALSE)
     ELSE /\ pc' = [pc EXCEPT ![p] = "get"]
          /\ ret' = NoCall
          /\ UNCHANGED <<History, flock, resp>>
  /\ UNCHANGED <<Config, _reader, fs, dirs, now, pending, readerOpens>>

\* requests.get(..., stream=True): the transport fails, or the response
\* headers arrive.
download_get(p) ==
  /\ pc[p] = "get"
  /\ \/ Leave(p, Raised(p, "download", "ConnectionError", TRUE, TRUE), FALSE)
     \/ /\ pc' = [pc EXCEPT ![p] = "makedirs"]
        /\ ret' = NoCall
        /\ UNCHANGED <<History, flock, resp>>
  /\ UNCHANGED <<Config, _reader, fs, dirs, now, pending, readerOpens>>

\* if self.directory: os.makedirs(self.directory, exist_ok=True)
download_makedirs(p) ==
  /\ pc[p] = "makedirs"
  /\ dirs' = IF mgr[p].directory # "" THEN dirs \cup {mgr[p].directory} ELSE dirs
  /\ pc' = [pc EXCEPT ![p] = "stream"]
  /\ ret' = NoCall
  /\ UNCHANGED <<Config, History, _reader, fs, flock, now, resp, pending, readerOpens>>

download_stream_retrying(p) ==
  /\ pc[p] = "stream"
  /\ \/ /\ pc' = [pc EXCEPT ![p] = "get"]
        /\ ret' = NoCall
        /\ UNCHANGED <<History, flock, resp>>
     \/ /\ \E r \in Responses : resp' = [resp EXCEPT ![p] = r]
        /\ pc' = [pc EXCEPT ![p] = "tar"]
        /\ ret' = NoCall
        /\ UNCHANGED <<History, flock>>
  /\ UNCHANGED <<Config, _reader, fs, dirs, now, pending, readerOpens>>

\* The chunks of r.iter_content() are written to the temporary file: the
\* transport fails on the way, or some body has arrived in full.
download_stream(p) ==
  /\ pc[p] = "stream"
  /\ \/ Leave(p, Raised(p, "download", "ChunkedEncodingError", TRUE, TRUE), FALSE)
     \/ /\ \E r \in Responses : resp' = [resp EXCEPT ![p] = r]
        /\ pc' = [pc EXCEPT ![p] = "tar"]
        /\ ret' = NoCall
        /\ UNCHANGED <<History, flock>>
  /\ UNCHANGED <<Config, _reader, fs, dirs, now, pending, readerOpens>>

\* tarfile.open(...) and next(filter(..., tar.getnames()))
download_tar(p) ==
  /\ pc[p] = "tar"
  /\ LET matches == FilterMmdb(getnames(resp[p]))
     IN  IF resp[p].kind # "tar"
         THEN /\ Leave(p, Raised(p, "download", "ReadError", TRUE, TRUE), FALSE)
              /\ UNCHANGED pending
         ELSE IF matches = {}
         THEN /\ Leave(p, Raised(p, "download", "StopIteration", TRUE, TRUE), FALSE)
              /\ UNCHANGED pending
         ELSE /\ pending' = [pending EXCEPT ![p] = resp[p].members[NextOf(matches)].data]
              /\ pc' = [pc EXCEPT ![p] = "extract"]
              /\ ret' = NoCall
              /\ UNCHANGED <<History, flock, resp>>
  /\ UNCHANGED <<Config, _reader, fs, dirs, now, readerOpens>>

\* extract_file_to(tar, member_path, l): the member's blocks are written to
\* the locked handle one after the other.
download_extract(p) ==
  /\ pc[p] = "extract"
  /\ IF pending[p] = <<>>
     THEN /\ pc' = [pc EXCEPT ![p] = "close"]
          /\ UNCHANGED <<fs, pending>>
     ELSE /\ fs' = [fs EXCEPT ![path(mgr[p])] = WriteBlock(@, Head(pending[p]), now)]
          /\ pending' = [pending EXCEPT ![p] = Tail(@)]
          /\ UNCHANGED pc
  /\ ret' = NoCall
  /\ UNCHANGED <<Config, History, _reader, dirs, flock, now, resp, readerOpens>>

\* extract_file_to(tar, member_path, l) is cut short: a write to the locked
\* handle raises (the disk is full, the process is interrupted) and the
\* blocks written so far stay in the file.
download_extract_error(p) ==
  /\ pc[p] = "extract"
  /\ pending[p] # <<>>
  /\ pending' = [pending EXCEPT ![p] = <<>>]
  /\ Leave(p, Raised(p, "download", "OSError", TRUE, TRUE), FALSE)
  /\ UNCHANGED <<Config, _reader, fs, dirs, now, readerOpens>>

\* tar.close(), the temporary file and the lock are left: download() returns.
download_return(p) ==
  /\ pc[p] = "close"
  /\ Leave(p, Returned(p, "download", NoneInt, TRUE, TRUE), TRUE)
  /\ UNCHANGED <<Config, _reader, fs, dirs, now, pending, readerOpens>>

(***************************************************************************)
(* The queries                                                             *)
(***************************************************************************)
exists_call_touching(p) ==
  /\ Ready(p)
  /\ ret' = Returned(p, "exists", Some(IF exists(p) THEN 1 ELSE 0), TRUE, FALSE)
  /\ fs' = [fs EXCEPT ![path(mgr[p])] = OpenAppend(@, now)]
  /\ UNCHANGED <<Config, History, _reader, dirs, flock, now, pc, resp, pending, readerOpens>>

exists_call(p) ==
  /\ Ready(p)
  /\ ret' = Returned(p, "exists", Some(IF exists(p) THEN 1 ELSE 0), TRUE, FALSE)
  /\ UNCHANGED <<Config, History, _reader, fs, dirs, flock, now, pc, resp, pending, readerOpens>>

updated_at_call(p) ==
  /\ Ready(p)
  /\ ret' = Returned(p, "updated_at", updated_at(p), TRUE, FALSE)
  /\ UNCHANGED <<Config, History, _reader, fs, dirs, flock, now, pc, resp, pending, readerOpens>>

\* Geoip2DataBase.reader.  geoip2.database.Reader(path) raises on a file
\* that is no database.
reader(p) ==
  /\ Ready(p)
  /\ IF ~HasReader(_reader[p]) /\ ~exists(p)
     THEN /\ ret' = Raised(p, "reader", "DatabaseNotExists", TRUE, FALSE)
          /\ UNCHANGED <<_reader, readerOpens>>
     ELSE IF ~HasReader(_reader[p])
     THEN IF fs[path(mgr[p])].content \in ValidDatabases
          THEN /\ readerOpens[p] < MaxOpens
               /\ readerOpens' = [readerOpens EXCEPT ![p] = @ + 1]
               /\ _reader' = [_reader EXCEPT ![p] = readerOpens[p] + 1]
               /\ ret' = Returned(p, "reader", Some(readerOpens[p] + 1), TRUE, FALSE)
          ELSE /\ ret' = Raised(p, "reader", "InvalidDatabaseError", TRUE, FALSE)
               /\ UNCHANGED <<_reader, readerOpens>>
     ELSE /\ ret' = Returned(p, "reader", Some(_reader[p]), FALSE, FALSE)
          /\ UNCHANGED <<_reader, readerOpens>>
  /\ UNCHANGED <<Config, History, fs, dirs, flock, now, pc, resp, pending>>

\* Time passes.
Tick ==
  /\ now < MaxClock
  /\ now' = now + 1
  /\ ret' = NoCall
  /\ UNCHANGED <<Config, History, _reader, fs, dirs, flock, pc, resp, pending, readerOpens>>

\* The calls of the processes.  No step of them reads the clock except to
\* stamp the modification time of the file, so their effect on everything
\* else is the same whether time passes in between or not.
Next ==
  \E p \in Procs :
    \/ download_open(p)
    \/ download_lock(p)
    \/ download_lock_timeout(p)
    \/ download_truncate(p)
    \/ download_check(p)
    \/ download_get(p)
    \/ download_makedirs(p)
    \/ download_stream(p)
    \/ download_tar(p)
    \/ download_extract(p)
    \/ download_extract_error(p)
    \/ download_return(p)
    \/ exists_call(p)
    \/ updated_at_call(p)
    \/ reader(p)

Spec == Init /\ [][Next]_vars

\* The same calls with the clock advancing between any two steps.
NextTimed == Next \/ Tick

SpecTimed == Init /\ [][NextTimed]_vars

(***************************************************************************)
(* The constructor on its own                                              *)
(***************************************************************************)
InitCtor ==
  /\ env \in EnvValues
  /\ args \in CtorArgs
  /\ mgr = [p \in Procs |-> NoManager]
  /\ dirs = {}
  /\ InitCommon

\* Geoip2DataBase(edition_id, directory, license_key) in process p
construct(p) ==
  /\ ~mgr[p].built
  /\ mgr' = [mgr EXCEPT ![p] = NewManager(args, env)]
  /\ ret' = IF LicenseAccepted(ResolveLicense(args.license_key, env))
            THEN Returned(p, "__init__", NoneInt, FALSE, FALSE)
            ELSE Raised(p, "__init__", "AssertionError", FALSE, FALSE)
  /\ UNCHANGED <<env, args, History, _reader, fs, dirs, flock, now, pc, resp, pending, readerOpens>>

NextCtor == \E p \in Procs : construct(p)

SpecCtor == InitCtor /\ [][NextCtor]_vars


(***************************************************************************)
(* Properties                                                              *)
(***************************************************************************)
Target(p) == path(mgr[p])

\* Process p has issued the HTTP GET in the download() it is in.
HasFetched(p) == pc[p] \in {"makedirs", "stream", "tar", "extract", "close"}

\* The step is one of process p inside download().
DownloadStep(p) ==
  /\ pc[p] # "idle"
  /\ pc'[p] # pc[p] \/ pending'[p] # pending[p]

\* The step is a call of op by p that returned or raised.
CallBy(p, op) == ret'.proc = p /\ ret'.op = op

\* C1: of two download() invocations on the same target that run
\* concurrently, exactly one fetches and extracts; the other, once it holds
\* the lock, finds the file non-empty and issues no HTTP request.
C1_SingleFetch ==
  \A q \in Procs :
    peerDone[q] =>
      /\ ~HasFetched(q)
      /\ pc[q] \in {"check", "get"} => getsize(Target(q)) # 0

\* C2: once the target file is installed (non-empty, nobody downloading),
\* every later download() returns successfully, issues no HTTP request and
\* leaves the content of the file as it was.
C2_InstalledFileKept ==
  [][\A p \in Procs :
       (nzStart[p] /\ DownloadStep(p)) =>
         /\ fs'[Target(p)].content = fs[Target(p)].content
         /\ ~HasFetched(p)'
         /\ pc'[p] = "idle" => (ret'.err = "" /\ ~ret'.http)]_vars

\* The data of the first member of an archive whose name ends with '.mmdb'.
FirstDatabaseOf(archive) ==
  LET i == CHOOSE k \in 1..Len(archive.members) :
             /\ archive.members[k].name.suffix = ".mmdb"
             /\ \A j \in 1..(k - 1) : archive.members[j].name.suffix # ".mmdb"
  IN  archive.members[i].data

\* C3: when a download() that fetched returns successfully, the content of
\* the target file is exactly the data of the first '.mmdb' member of the
\* archive it received.
C3_InstalledEqualsMember ==
  [][\A p \in Procs :
       (pc[p] = "close" /\ pc'[p] = "idle") =>
         /\ ret' = Returned(p, "download", NoneInt, TRUE, TRUE)
         /\ fs'[Target(p)].content = FirstDatabaseOf(resp[p])]_vars

C3_Witness ==
  \E p \in Procs :
    /\ pc[p] = "close"
    /\ resp[p].members = <<TxtMember, OldDbMember>>
    /\ fs[Target(p)].content = OldDbMember.data

\* The archive is a tar archive none of whose members is named '*.mmdb'.
NoDatabaseIn(archive) ==
  /\ archive.kind = "tar"
  /\ \A i \in 1..Len(archive.members) : archive.members[i].name.suffix # ".mmdb"

\* C4: a download() whose archive has no '.mmdb' member raises the error of
\* the member search to its caller, and the target file stays the empty
\* placeholder it was when the fetch began: nothing is written to it.
C4_NoMemberFails ==
  [][\A p \in Procs :
       /\ pc[p] \in {"get", "makedirs", "stream", "tar"} =>
            (fs[Target(p)].exists /\ fs[Target(p)].content = <<>>)
       /\ (pc[p] = "tar" /\ NoDatabaseIn(resp[p]) /\ DownloadStep(p)) =>
            /\ pc'[p] = "idle"
            /\ ret' = Raised(p, "download", "StopIteration", TRUE, TRUE)
            /\ fs' = fs]_vars

C4_Witness ==
  /\ ret.op = "download"
  /\ ret.err = "StopIteration"
  /\ pc[ret.proc] = "idle"
  /\ fs[Target(ret.proc)].exists
  /\ fs[Target(ret.proc)].content = <<>>

\* C5: construction fails whenever neither the license_key argument nor the
\* environment holds a non-empty credential, so every constructed manager
\* holds a non-empty license key.
C5_NonEmptyCredential ==
  \A p \in Procs :
    mgr[p].built =>
      /\ mgr[p].license_key.some
      /\ mgr[p].license_key.v # ""
      /\ (args.license_key.some /\ args.license_key.v # "") \/ (env.some /\ env.v # "")

\* C6: with the database installed, reader succeeds and caches the instance;
\* from then on every access returns that same instance without touching the
\* filesystem, whatever happens to the file, and a manager constructs at most
\* one Reader.
C6_ReaderCached ==
  [][\A p \in Procs :
       /\ readerOpens'[p] <= 1
       /\ _reader[p] # NoReader => _reader'[p] = _reader[p]
       /\ (CallBy(p, "reader") /\ fs[Target(p)].content \in ValidDatabases) =>
            /\ ret'.err = ""
            /\ _reader'[p] # NoReader
            /\ ret'.val = Some(_reader'[p])
       /\ (CallBy(p, "reader") /\ _reader[p] # NoReader) =>
            /\ ret'.err = ""
            /\ ret'.val = Some(_reader[p])
            /\ ~ret'.io]_vars

\* A cached reader is returned although the file is no database any more.
C6_Witness ==
  \E p \in Procs :
    /\ ret = Returned(p, "reader", Some(_reader[p]), FALSE, FALSE)
    /\ _reader[p] # NoReader
    /\ fs[Target(p)].content \notin ValidDatabases

\* C7: reader accessed while no install has succeeded, the target file being
\* absent or a zero-byte placeholder, raises the not-installed error and
\* caches nothing.
C7_NotInstalledError ==
  [][\A p \in Procs :
       (/\ CallBy(p, "reader")
        /\ _reader[p] = NoReader
        /\ ~fs[Target(p)].exists \/ fs[Target(p)].content = <<>>) =>
         /\ ret'.err = "DatabaseNotExists"
         /\ _reader'[p] = NoReader]_vars

\* C8: exists() is false while there is no entry at path(); the entry is
\* there, and exists() true, from the moment download() has opened the file
\* for its lock, before the lock is held or anything is written; and it
\* stays true from then on, however the download ends.
C8_ExistsFromPlaceholder ==
  [][\A p \in Procs :
       /\ exists(p)' <=> fs'[Target(p)].exists
       /\ pc'[p] # "idle" => exists(p)'
       /\ exists(p) => exists(p)'
       /\ CallBy(p, "exists") => (ret'.val = Some(1) <=> fs[Target(p)].exists)]_vars

C8_Witness ==
  \E p \in Procs :
    /\ pc[p] = "open"
    /\ flock[Target(p)] = {}
    /\ fs[Target(p)].content = <<>>
    /\ exists(p)

\* C9: updated_at() is None exactly when there is no file at path() and is
\* the modification time of the file otherwise; when a download() that
\* fetched returns successfully, it is no earlier than the time that
\* download() was invoked.
C9_UpdatedAt ==
  [][\A p \in Procs :
       /\ updated_at(p)'.some <=> fs'[Target(p)].exists
       /\ fs'[Target(p)].exists => updated_at(p)'.v = fs'[Target(p)].mtime
       /\ CallBy(p, "updated_at") => (ret'.err = "" /\ ret'.val = updated_at(p))
       /\ (pc[p] = "close" /\ pc'[p] = "idle") =>
            (updated_at(p)'.some /\ updated_at(p)'.v >= startTime[p])]_vars

C9_Witness ==
  \E p \in Procs :
    /\ pc[p] = "close"
    /\ startTime[p] > 0
    /\ updated_at(p) = Some(startTime[p])

\* The canonical provider name of an edition identifier.
ProviderName(e) ==
  IF e = "asn" THEN "GeoLite2-ASN"
  ELSE IF e = "country" THEN "GeoLite2-Country"
  ELSE IF e = "city" THEN "GeoLite2-City"
  ELSE e

\* C10: path() and the edition_id request parameter use the provider name of
\* an alias and any other identifier unchanged; resolving twice changes
\* nothing, and path() is {directory}/{canonical edition}.mmdb.
C10_CanonicalEdition ==
  \A p \in Procs :
    mgr[p].built =>
      LET canon == ProviderName(args.edition_id)
          dir == IF args.directory.some /\ args.directory.v # ""
                 THEN args.directory.v ELSE DEFAULT_GEOIP2_TOOLS_DIRECTORY
      IN  /\ download_params(mgr[p]).edition_id = canon
          /\ path(mgr[p]) = PathJoin(dir, canon \o ".mmdb")
          /\ CanonicalEdition(mgr[p].edition_id) = mgr[p].edition_id
          /\ canon \notin {"asn", "country", "city"}

C10_Witness ==
  \E p \in Procs :
    /\ mgr[p].built
    /\ args.edition_id = "city"
    /\ path(mgr[p]) = PathJoin(DEFAULT_GEOIP2_TOOLS_DIRECTORY, "GeoLite2-City.mmdb")

\* Process p is between the acquisition and the release of the lock.
InLock(p) == pc[p] \in {"locked", "check", "get", "makedirs", "stream", "tar", "extract", "close"}

\* C11: however a download() invocation ends (success, early return, any
\* error), the process does not hold the lock on the target path afterwards,
\* and when it was the holder the lock is free for another process to take.
C11_LockReleased ==
  [][\A p \in Procs :
       /\ pc'[p] = "idle" => p \notin flock'[Target(p)]
       /\ (InLock(p) /\ pc'[p] = "idle") =>
            /\ flock'[Target(p)] = {}
            /\ ret'.proc = p /\ ret'.op = "download"
       /\ (pc[p] = "open" /\ flock[Target(p)] = {}) => ENABLED download_lock(p)]_vars

\* A download() has ended with an error while another process was waiting
\* for the lock, which is free now.
C11_Witness ==
  \E p, q \in Procs :
    /\ ret.proc = p /\ ret.op = "download" /\ ret.err \in {"ReadError", "StopIteration", "OSError"}
    /\ pc[p] = "idle"
    /\ pc[q] = "open"
    /\ Target(q) = Target(p)
    /\ flock[Target(p)] = {}

\* The step is one of process p.
StepOf(p) == pc'[p] # pc[p] \/ pending'[p] # pending[p] \/ ret'.proc = p

QueryDuringDownload(q, op) ==
  /\ CallBy(q, op)
  /\ \E p \in Procs \ {q} : pc[p] # "idle" /\ Target(p) = Target(q)

\* C13: whenever exists(), updated_at() or reader runs in a process while
\* another process is inside download(), the target file is absent, empty
\* or complete, never partly written; and reader never caches a handle
\* opened over a partly written file.
C13_NoPartialContentSeen ==
  [][\A q \in Procs :
       /\ (\/ QueryDuringDownload(q, "exists")
           \/ QueryDuringDownload(q, "updated_at")
           \/ QueryDuringDownload(q, "reader")) =>
            ~PartlyWritten(fs[Target(q)].content)
       /\ _reader'[q] # _reader[q] => ~PartlyWritten(fs[Target(q)].content)]_vars

\* The errors of the network, of the archive and of the extraction.
FetchErrors == {"ConnectionError", "ChunkedEncodingError", "ReadError", "StopIteration", "OSError"}

\* C14: a download() that holds the lock never returns early on a file that
\* is not a whole database, whatever an earlier failed attempt left in it
\* (nothing, or a part of a member); it fails only by an error of its own
\* fetch or extraction, and when it returns successfully the file is whole
\* and equal to the database member of the archive it received.
C14_RecoversAfterFailure ==
  [][\A p \in Procs :
       /\ (pc[p] = "check" /\ DownloadStep(p) /\ fs[Target(p)].content \notin ValidDatabases) =>
            pc'[p] = "get"
       /\ (InLock(p) /\ pc'[p] = "idle" /\ ret'.err # "") => ret'.err \in FetchErrors
       /\ (InLock(p) /\ pc'[p] = "idle" /\ ret'.err = "") =>
            /\ fs'[Target(p)].exists
            /\ fs'[Target(p)].content \in ValidDatabases
            /\ ret'.http => fs'[Target(p)].content = FirstDatabaseOf(resp[p])]_vars

\* A download() that found a part of a member in the file, left by a failed
\* attempt, has installed the whole member of its own archive.
C14_Witness ==
  \E p \in Procs :
    /\ partStart[p]
    /\ pc[p] = "close"
    /\ fs[Target(p)].content = FirstDatabaseOf(resp[p])
    /\ fs[Target(p)].content \in ValidDatabases

\* C15: a download() that has opened the file and finds the lock held by
\* another process waits until it can take the lock: while it waits it
\* neither returns nor raises, so contention alone never makes it fail.
C15_LockBlocksUntilFree ==
  [][\A p \in Procs :
       pc[p] = "open" =>
         /\ pc'[p] \in {"open", "locked"}
         /\ ~(ret'.proc = p /\ ret'.op = "download" /\ ret'.err # "")]_vars

\* C16: a download() invoked while the target directory does not exist does
\* not fail for that reason: it goes on to open the target file, and the
\* directory is there when the member is written.
C16_MissingDirectoryCreated ==
  [][\A p \in Procs :
       /\ (Ready(p) /\ mgr[p].directory \notin dirs /\ (pc'[p] # "idle" \/ CallBy(p, "download"))) =>
            /\ pc'[p] = "open"
            /\ ret'.err = ""
       /\ pc'[p] \in {"extract", "close"} => mgr[p].directory \in dirs']_vars

\* The step is the HTTP GET of process p.
IssuesGet(p) == pc[p] = "get" /\ pc'[p] # "get"

\* C17: a download() issues its HTTP GET only while it holds the lock and
\* after its size check found the file empty; once it has issued the GET it
\* never issues another in the same invocation; and a transport error of
\* the GET or of the streamed body ends the invocation with that error.
C17_SingleGetUnderLock ==
  [][\A p \in Procs :
       /\ IssuesGet(p) =>
            /\ flock[Target(p)] = {p}
            /\ getsize(Target(p)) = 0
       /\ (pc'[p] = "get" /\ pc[p] # "get") => (pc[p] = "check" /\ getsize(Target(p)) = 0)
       /\ HasFetched(p) => pc'[p] # "get"
       /\ (pc[p] # "idle" /\ pc'[p] = "idle") => (ret'.http <=> (pc[p] = "get" \/ HasFetched(p)))
       /\ (pc[p] \in {"get", "stream"} /\ pc'[p] = "idle") =>
            ret' = Raised(p, "download", IF pc[p] = "get" THEN "ConnectionError"
                                        ELSE "ChunkedEncodingError", TRUE, TRUE)]_vars

\* The GET of a download() failed and the error is with the caller.
C17_Witness ==
  \E p \in Procs :
    /\ ret = Raised(p, "download", "ConnectionError", TRUE, TRUE)
    /\ pc[p] = "idle"
    /\ fs[Target(p)].exists
    /\ getsize(Target(p)) = 0

\* C18: exists() and updated_at() change nothing but what they return: the
\* filesystem (entry, content and modification time of every file, the
\* directories), the locks, the cached readers and the progress of every
\* download stay as they are; and path is the same after every step, the
\* value fixed by the configuration the manager was constructed with.
C18_QueriesReadOnly ==
  [][\A p \in Procs :
       /\ (CallBy(p, "exists") \/ CallBy(p, "updated_at")) =>
            /\ fs' = fs
            /\ dirs' = dirs
            /\ flock' = flock
            /\ _reader' = _reader
            /\ readerOpens' = readerOpens
            /\ pc' = pc
       /\ mgr[p].built => mgr'[p] = mgr[p]
       /\ ret'.proc = p => path(mgr'[p]) = path(NewManager(MainArgs(p), env))]_vars

\* A query has returned in a process with a cached reader while another
\* process holds the lock on the target.
C18_Witness ==
  \E p, q \in Procs :
    /\ p # q
    /\ ret.proc = q
    /\ ret.op \in {"exists", "updated_at"}
    /\ ret.val.some
    /\ _reader[q] # NoReader
    /\ flock[Target(q)] = {p}

====
